---- MODULE Spec2Model ----
(***************************************************************************)
(* Offline signing workflow of ripple-rust-examples                        *)
(* (src/src/offline_signing.rs, src/src/lib.rs, src/src/client.rs).        *)
(*                                                                         *)
(* Numbers.  The code computes on u32 (and i32) values.  TLC's integers    *)
(* stop at 2^31-1, so a number is kept as a pair <<hi, lo>> that stands    *)
(* for hi * 2^16 + lo with lo \in 0..2^16-1.  Every mathematical integer   *)
(* has exactly one such pair (hi may be negative or exceed 2^16-1), so     *)
(* equality of pairs is equality of numbers; a u32 is a pair with          *)
(* hi \in 0..2^16-1.                                                       *)
(*                                                                         *)
(* Strings.  A string the code parses, formats or searches is a sequence   *)
(* of one-character strings: "12" is <<"1", "2">>.                         *)
(***************************************************************************)
EXTENDS Integers, Sequences, FiniteSets, TLC

VARIABLES
    ledger,      \* network: latest validated ledger index (u32)
    acctSeq,     \* network: next sequence number of each account
    closes,      \* number of ledger advances so far (bounded)
    others,      \* number of transactions applied for other senders of the account (bounded)
    checked,     \* build profile: TRUE = overflow checks on (debug), FALSE = wrapping (release)
    pc,          \* per workflow invocation: position in offline_*_workflow
    wf,          \* per workflow invocation: its arguments
    cli,         \* per workflow invocation: ledger index read in the gather phase
    params,      \* per workflow invocation: OfflineTransactionParams returned by gather
    blob,        \* per workflow invocation: signed blob returned by the signer
    resp,        \* per workflow invocation: what the submit phase observed
    result,      \* per workflow invocation: Result<String> of the workflow
    reqs,        \* per workflow invocation: requests issued, in order, with their connection
    call,        \* a direct call of one pure function: arguments and outcome
    queried      \* per workflow invocation: the account named in its account_info request

vars == <<ledger, acctSeq, closes, others, checked, pc, wf, cli, params, blob, resp, result, reqs, call, queried>>

None == [some |-> FALSE]

Some(v) == [some |-> TRUE, val |-> v]

(***************************************************************************)
(* Integer arithmetic on pairs                                             *)
(***************************************************************************)
Half == 2^16

FromNat(n) == <<n \div Half, n % Half>>

BigAdd(a, b) == LET s == a[2] + b[2] IN <<a[1] + b[1] + (s \div Half), s % Half>>

BigSub(a, b) == LET d == a[2] - b[2] IN <<a[1] - b[1] + (d \div Half), d % Half>>

BigLt(a, b) == a[1] < b[1] \/ (a[1] = b[1] /\ a[2] < b[2])

BigGe(a, b) == ~BigLt(a, b)

\* a * k for a u32 a and a small factor k (k <= 10 here)
BigMulSmall(a, k) == LET l == a[2] * k IN <<a[1] * k + (l \div Half), l % Half>>

U32Zero == <<0, 0>>

U32Max == <<Half - 1, Half - 1>>

IsU32(a) == a[1] >= 0 /\ a[1] < Half

\* the value a u32 register holds after a wrapping operation: the number mod 2^32
WrapU32(a) == <<a[1] % Half, a[2]>>

(***************************************************************************)
(* Strings of decimal digits                                               *)
(***************************************************************************)
Digits == <<"0", "1", "2", "3", "4", "5", "6", "7", "8", "9">>

IsDigit(c) == \E i \in 1..10 : Digits[i] = c

DigitVal(c) == (CHOOSE i \in 1..10 : Digits[i] = c) - 1

Err == [ok |-> FALSE]

Ok(v) == [ok |-> TRUE, val |-> v]

Fail(e) == [ok |-> FALSE, err |-> e]

\* the digit loop of <u32 as FromStr>::from_str: checked multiply by ten,
\* checked add of the digit; any non-digit or any overflow is an error
RECURSIVE ParseDigits(_, _)
ParseDigits(ds, acc) ==
    IF ds = <<>> THEN Ok(acc)
    ELSE IF ~IsDigit(Head(ds)) THEN Err
    ELSE LET m == BigMulSmall(acc, 10)
             n == BigAdd(m, FromNat(DigitVal(Head(ds))))
         IN  IF ~IsU32(m) \/ ~IsU32(n) THEN Err ELSE ParseDigits(Tail(ds), n)

\* a parse whose failure is replaced by zero (unwrap_or(0))
ParseU32_unwrap_or_zero(s) ==
    LET r == IF s = <<>> THEN Err
             ELSE IF Len(s) = 1 /\ s[1] \in {"+", "-"} THEN Err
             ELSE IF s[1] = "+" THEN ParseDigits(Tail(s), U32Zero)
             ELSE ParseDigits(s, U32Zero)
    IN  IF r.ok THEN r ELSE Ok(U32Zero)

\* str::parse::<u32>(): empty and a lone sign are errors, one leading "+" is
\* accepted, "-" is not a digit of an unsigned type
ParseU32(s) ==
    IF s = <<>> THEN Err
    ELSE IF Len(s) = 1 /\ s[1] \in {"+", "-"} THEN Err
    ELSE IF s[1] = "+" THEN ParseDigits(Tail(s), U32Zero)
    ELSE ParseDigits(s, U32Zero)

\* quotient and remainder of a u32 by ten
Div10(a) == LET t == (a[1] % 10) * Half + a[2] IN <<a[1] \div 10, t \div 10>>

Mod10(a) == ((a[1] % 10) * Half + a[2]) % 10

\* u32::to_string(): decimal digits, most significant first, no sign, no padding
RECURSIVE to_string(_)
to_string(a) ==
    IF a[1] = 0 /\ a[2] < 10 THEN <<Digits[a[2] + 1]>>
    ELSE Append(to_string(Div10(a)), Digits[Mod10(a) + 1])

(***************************************************************************)
(* Security configuration                                                  *)
(***************************************************************************)
TRANSACTION_EXPIRY_LEDGERS == 10

MINIMUM_FEE_DROPS == 12

(***************************************************************************)
(* OfflineTransactionParams and its methods                                *)
(***************************************************************************)
OfflineTransactionParams(seq, fee, lls, cur) ==
    [sequence |-> seq, fee |-> fee, last_ledger_sequence |-> lls,
     current_ledger_index |-> cur]

\* the fee rules checked before the expiration rules
validate_security_fee_first(p, current_ledger) ==
    LET fee_drops == ParseU32(p.fee) IN
    IF ~fee_drops.ok THEN "MalformedFee"
    ELSE IF BigLt(fee_drops.val, FromNat(MINIMUM_FEE_DROPS)) THEN "FeeBelowMinimum"
    ELSE IF p.last_ledger_sequence = U32Zero THEN "MissingExpiration"
    ELSE IF current_ledger.some /\ BigGe(current_ledger.val, p.last_ledger_sequence)
         THEN "Expired"
    ELSE "Ok"

\* expiration tested with > in place of >=
validate_security_strict_gt(p, current_ledger) ==
    IF p.last_ledger_sequence = U32Zero THEN "MissingExpiration"
    ELSE IF current_ledger.some /\ BigLt(p.last_ledger_sequence, current_ledger.val)
         THEN "Expired"
    ELSE LET fee_drops == ParseU32(p.fee) IN
         IF ~fee_drops.ok THEN "MalformedFee"
         ELSE IF BigLt(fee_drops.val, FromNat(MINIMUM_FEE_DROPS)) THEN "FeeBelowMinimum"
         ELSE "Ok"

\* Result<()> of validate_security: "Ok" or the error it bails with
\* a validator whose expired rule fires only at the expiration ledger itself
validate_security_only_at_expiry(p, current_ledger) ==
    IF p.last_ledger_sequence = U32Zero THEN "MissingExpiration"
    ELSE IF current_ledger.some /\ current_ledger.val = p.last_ledger_sequence THEN "Expired"
    ELSE LET fee_drops == ParseU32(p.fee) IN
         IF ~fee_drops.ok THEN "MalformedFee"
         ELSE IF BigLt(fee_drops.val, FromNat(MINIMUM_FEE_DROPS)) THEN "FeeBelowMinimum"
         ELSE "Ok"

\* a validator that tests the expired rule before the missing-expiration rule
validate_security_expired_first(p, current_ledger) ==
    IF current_ledger.some /\ BigGe(current_ledger.val, p.last_ledger_sequence) THEN "Expired"
    ELSE IF p.last_ledger_sequence = U32Zero THEN "MissingExpiration"
    ELSE LET fee_drops == ParseU32(p.fee) IN
         IF ~fee_drops.ok THEN "MalformedFee"
         ELSE IF BigLt(fee_drops.val, FromNat(MINIMUM_FEE_DROPS)) THEN "FeeBelowMinimum"
         ELSE "Ok"

validate_security(p, current_ledger) ==
    IF p.last_ledger_sequence = U32Zero THEN "MissingExpiration"
    ELSE IF current_ledger.some /\ BigGe(current_ledger.val, p.last_ledger_sequence)
         THEN "Expired"
    ELSE LET fee_drops == ParseU32(p.fee) IN
         IF ~fee_drops.ok THEN "MalformedFee"
         ELSE IF BigLt(fee_drops.val, FromNat(MINIMUM_FEE_DROPS)) THEN "FeeBelowMinimum"
         ELSE "Ok"

(***************************************************************************)
(* Wallet, Payment record, signing and the binary codec                    *)
(*                                                                         *)
(* Wallet::new, Payment::new, sign and encode belong to the xrpl crate.    *)
(* They are modelled at their interface (spec sections 4.3 and 6): a       *)
(* wallet is derived from a seed deterministically or not at all, sign     *)
(* adds the public key and a signature over the record, encode lists the   *)
(* present fields in canonical order and fails on an account or a          *)
(* destination that is no address.                                         *)
(***************************************************************************)
Seeds == {"sAlice", "garbage"}

Addresses == {"rAlice", "rDest"}

\* Wallet::new(seed, 0)
Wallet_new(seed) ==
    IF seed = "sAlice"
    THEN Ok([classic_address |-> "rAlice", public_key |-> "pkAlice", private_key |-> "skAlice"])
    ELSE Err

\* XRPAmount(Cow<str>) wrapped in Amount::XRPAmount: a string of drops
XRPAmount(drops) == [type |-> "XRP", value |-> drops, currency |-> "XRP", issuer |-> ""]

\* IssuedCurrencyAmount::new and Amount::IssuedCurrencyAmount
IssuedCurrencyAmount_new(currency, issuer, value) ==
    [type |-> "Issued", value |-> value, currency |-> currency, issuer |-> issuer]

\* Payment::new: the seventeen positional arguments, in the crate's order
Payment_new(account, account_txn_id, fee, flags, last_ledger_sequence, memos, sequence, signers, source_tag, ticket_sequence, amount, destination, deliver_min, destination_tag, invoice_id, paths, send_max) ==
    [TransactionType |-> Some("Payment"), Account |-> Some(account),
     AccountTxnID |-> account_txn_id, Fee |-> fee, Flags |-> flags,
     LastLedgerSequence |-> last_ledger_sequence, Memos |-> memos,
     Sequence |-> sequence, Signers |-> signers, SourceTag |-> source_tag,
     TicketSequence |-> ticket_sequence, Amount |-> Some(amount),
     Destination |-> Some(destination), DeliverMin |-> deliver_min,
     DestinationTag |-> destination_tag, InvoiceID |-> invoice_id,
     Paths |-> paths, SendMax |-> send_max,
     SigningPubKey |-> None, TxnSignature |-> None]

CanonicalOrder ==
    <<"TransactionType", "Flags", "SourceTag", "Sequence", "DestinationTag",
      "LastLedgerSequence", "TicketSequence", "AccountTxnID", "InvoiceID",
      "Amount", "Fee", "SendMax", "DeliverMin", "SigningPubKey", "TxnSignature",
      "Account", "Destination", "Memos", "Signers", "Paths">>

FieldNames == {CanonicalOrder[i] : i \in 1..Len(CanonicalOrder)}

\* the fields of a record that are present, in canonical order
RECURSIVE EncodeFrom(_, _)
EncodeFrom(tx, i) ==
    IF i > Len(CanonicalOrder) THEN <<>>
    ELSE LET f == CanonicalOrder[i] IN
         IF tx[f].some THEN <<(<<f, tx[f].val>>)>> \o EncodeFrom(tx, i + 1)
         ELSE EncodeFrom(tx, i + 1)

Encodable(tx) == tx.Account.val \in Addresses /\ tx.Destination.val \in Addresses

\* encode(&payment)
encode(tx) == IF Encodable(tx) THEN Ok(EncodeFrom(tx, 1)) ELSE Err

\* the field f of an encoded record, None when the blob does not carry it
Field(b, f) ==
    IF \E i \in 1..Len(b) : b[i][1] = f
    THEN Some(b[CHOOSE i \in 1..Len(b) : b[i][1] = f][2])
    ELSE None

\* decoding of a blob: the record whose present fields are those of the blob
decode(b) == [f \in FieldNames |-> Field(b, f)]

\* sign(&mut payment, &wallet, false)
sign(tx, wallet) ==
    IF ~Encodable(tx) THEN Err
    ELSE Ok([tx EXCEPT !.SigningPubKey = Some(wallet.public_key),
                       !.TxnSignature = Some(<<wallet.private_key, EncodeFrom(tx, 1)>>)])

\* sequence and last_ledger_sequence in each other's position
SignerPayment_swapped(wallet, to_address, amount, p) ==
    Payment_new(wallet.classic_address, None, Some(p.fee), None,
                Some(p.sequence), None, Some(p.last_ledger_sequence), None, None, None,
                amount, to_address, None, None, None, None, None)

\* the Payment the signer builds from its arguments
SignerPayment(wallet, to_address, amount, p) ==
    Payment_new(wallet.classic_address, None, Some(p.fee), None,
                Some(p.last_ledger_sequence), None, Some(p.sequence), None, None, None,
                amount, to_address, None, None, None, None, None)

\* the validation the signer runs first: no current ledger is known offline
SignerValidation(p) == validate_security(p, None)

\* a signer that derives the wallet before it validates the parameters
offline_sign_transaction_wallet_first(user_secret, to_address, amount, p) ==
    LET wallet == Wallet_new(user_secret) IN
    IF ~wallet.ok THEN Fail(<<"WalletError">>)
    ELSE LET v == SignerValidation(p) IN
    IF v # "Ok" THEN Fail(<<"SecurityValidationFailed", v>>)
    ELSE LET signed == sign(SignerPayment(wallet.val, to_address, amount, p), wallet.val) IN
    IF ~signed.ok THEN Fail(<<"SignError">>)
    ELSE LET signed_blob == encode(signed.val) IN
    IF ~signed_blob.ok THEN Fail(<<"EncodeError">>)
    ELSE Ok(signed_blob.val)

\* Result<String> of offline_sign_transaction
offline_sign_transaction(user_secret, to_address, amount, p) ==
    LET v == SignerValidation(p) IN
    IF v # "Ok" THEN Fail(<<"SecurityValidationFailed", v>>)
    ELSE LET wallet == Wallet_new(user_secret) IN
    IF ~wallet.ok THEN Fail(<<"WalletError">>)
    ELSE LET signed == sign(SignerPayment(wallet.val, to_address, amount, p), wallet.val) IN
    IF ~signed.ok THEN Fail(<<"SignError">>)
    ELSE LET signed_blob == encode(signed.val) IN
    IF ~signed_blob.ok THEN Fail(<<"EncodeError">>)
    ELSE Ok(signed_blob.val)

\* a signer that asks the network for the ledger (as autofill does)
SignerRequests_autofill == <<[conn |-> "A", kind |-> "ledger"]>>

\* the requests offline_sign_transaction issues: it holds no client
SignerRequests == <<>>

(***************************************************************************)
(* Gathering: the computation after both responses arrived                 *)
(***************************************************************************)
\* an expiration twice as far ahead
ExpiryOf_longer(current_ledger_index, chk) ==
    LET sum == BigAdd(current_ledger_index, FromNat(2 * TRANSACTION_EXPIRY_LEDGERS)) IN
    IF IsU32(sum) THEN Ok(sum)
    ELSE IF chk THEN Err
    ELSE Ok(WrapU32(sum))

\* current_ledger_index + TRANSACTION_EXPIRY_LEDGERS on u32: the sum when it
\* fits; otherwise a panic with overflow checks on, the sum mod 2^32 with
\* them off
ExpiryOf(current_ledger_index, chk) ==
    LET sum == BigAdd(current_ledger_index, FromNat(TRANSACTION_EXPIRY_LEDGERS)) IN
    IF IsU32(sum) THEN Ok(sum)
    ELSE IF chk THEN Err
    ELSE Ok(WrapU32(sum))

\* MINIMUM_FEE_DROPS.to_string()
GatheredFee == to_string(FromNat(MINIMUM_FEE_DROPS))

\* gather without its final validation
GatherValidation_skipped(p, current_ledger_index) == "Ok"

\* validation of the gathered parameters before they are returned
GatherValidation(p, current_ledger_index) == validate_security(p, Some(current_ledger_index))

Panic == [panic |-> TRUE]

\* lines 92-121 of gather_transaction_params: Panic, or the Result returned
gather_transaction_params(current_ledger_index, sequence, chk) ==
    LET lls == ExpiryOf(current_ledger_index, chk) IN
    IF ~lls.ok THEN Panic
    ELSE LET p == OfflineTransactionParams(sequence, GatheredFee, lls.val, current_ledger_index)
             v == GatherValidation(p, current_ledger_index)
         IN  IF v # "Ok" THEN Fail(<<"SecurityValidationFailed", v>>) ELSE Ok(p)

(***************************************************************************)
(* Submission: classification of the response                              *)
(***************************************************************************)
EXPIRED == <<"E", "X", "P", "I", "R", "E", "D">>

LATE == <<"L", "A", "T", "E">>

tesSUCCESS == <<"t", "e", "s", "S", "U", "C", "C", "E", "S", "S">>

tefPAST_SEQ == <<"t", "e", "f", "P", "A", "S", "T", "_", "S", "E", "Q">>

terPRE_SEQ == <<"t", "e", "r", "P", "R", "E", "_", "S", "E", "Q">>

tefMAX_LEDGER == <<"t", "e", "f", "M", "A", "X", "_", "L", "E", "D", "G", "E", "R">>

tecEXPIRED == <<"t", "e", "c", "E", "X", "P", "I", "R", "E", "D">>

tefTOO_LATE == <<"t", "e", "f", "T", "O", "O", "_", "L", "A", "T", "E">>

\* str::contains
Contains(s, sub) ==
    \E i \in 0..(Len(s) - Len(sub)) : SubSeq(s, i + 1, i + Len(sub)) = sub

JsonString(s) == [type |-> "string", val |-> s]

JsonNumber(n) == [type |-> "number", val |-> n]

\* tx_json.get("hash").and_then(|h| h.as_str())
HashOf(tx_json) ==
    IF "hash" \in DOMAIN tx_json /\ tx_json["hash"].type = "string"
    THEN Ok(tx_json["hash"].val)
    ELSE Err

\* only the first of the two markers is looked for
HasExpiryMarker_only_expired(engine_result) == Contains(engine_result, EXPIRED)

\* the expiration markers looked for in the engine result
HasExpiryMarker(engine_result) ==
    Contains(engine_result, EXPIRED) \/ Contains(engine_result, LATE)

\* a classification that extracts the hash before it looks for the markers
SubmitClassify_hash_first(response) ==
    IF response.kind # "Submit" THEN Fail(<<"UnexpectedResponse">>)
    ELSE LET h == HashOf(response.tx_json) IN
         IF ~h.ok THEN Fail(<<"NoHash">>)
         ELSE IF HasExpiryMarker(response.engine_result) THEN Fail(<<"TransactionExpired">>)
         ELSE Ok(h.val)

\* lines 214-237 of submit_signed_blob: the Result for a response that arrived
SubmitClassify(response) ==
    IF response.kind # "Submit" THEN Fail(<<"UnexpectedResponse">>)
    ELSE IF HasExpiryMarker(response.engine_result) THEN Fail(<<"TransactionExpired">>)
    ELSE LET h == HashOf(response.tx_json) IN
         IF ~h.ok THEN Fail(<<"NoHash">>) ELSE Ok(h.val)

(***************************************************************************)
(* remaining_ledgers: i32 arithmetic on the two u32 values                 *)
(***************************************************************************)
I32Min == <<0 - (Half \div 2), 0>>

I32Max == <<(Half \div 2) - 1, Half - 1>>

IsI32(x) == BigGe(x, I32Min) /\ BigGe(I32Max, x)

\* u32 as i32: the value with the same 32 bits
AsI32(x) == IF BigGe(I32Max, x) THEN x ELSE BigSub(x, <<Half, 0>>)

\* the i32 with the same low 32 bits as the integer x
WrapI32(x) == AsI32(<<x[1] % Half, x[2]>>)

\* self.last_ledger_sequence as i32 - current_ledger as i32: Panic when the
\* subtraction overflows with overflow checks on, the wrapped value without
remaining_ledgers(p, current_ledger, chk) ==
    LET d == BigSub(AsI32(p.last_ledger_sequence), AsI32(current_ledger)) IN
    IF IsI32(d) THEN Ok(d)
    ELSE IF chk THEN Panic
    ELSE Ok(WrapI32(d))

(***************************************************************************)
(* The network: validated ledger, account sequence, transaction engine     *)
(***************************************************************************)
MaxCloses == 2

MaxOtherTx == 1

AdvanceSteps == {1, TRANSACTION_EXPIRY_LEDGERS}

BaseLedgers == {FromNat(1000), BigSub(U32Max, FromNat(11))}

BaseSequence == FromNat(5)

Accounts == {"rAlice"}

Hashes == {"HASH_A", "HASH_B"}

\* the engine results a server may give a transaction whose LastLedgerSequence passed
LateResults == {tefMAX_LEDGER, tecEXPIRED, tefTOO_LATE}

\* an engine that applies a transaction whatever its sequence number is
EngineResults_no_sequence_check(d) ==
    IF BigGe(ledger, d.LastLedgerSequence.val) THEN LateResults ELSE {tesSUCCESS}

\* the engine results a server may give the decoded transaction d in the
\* current state: applied when its sequence is the account's next one and
\* its LastLedgerSequence has not passed; which rejection is reported when
\* both tests fail is left open
EngineResults(d) ==
    LET conflict == IF d.Sequence.val = acctSeq[d.Account.val] THEN {}
                    ELSE IF BigLt(d.Sequence.val, acctSeq[d.Account.val]) THEN {tefPAST_SEQ}
                    ELSE {terPRE_SEQ}
    IN  IF BigGe(ledger, d.LastLedgerSequence.val) THEN LateResults \cup conflict
        ELSE IF conflict = {} THEN {tesSUCCESS}
        ELSE conflict

\* the tx_json a submit response may echo: a hash string, a hash that is no
\* string, no hash
TxJsons ==
    {[k \in {"hash"} |-> JsonString(h)] : h \in Hashes}
        \cup {[k \in {"hash"} |-> JsonNumber("7")], [k \in {} |-> JsonString("")]}

\* the responses the submit request may get for the decoded transaction d
SubmitResponses(d) ==
    {[kind |-> "Submit", engine_result |-> er, tx_json |-> tj] :
        er \in EngineResults(d), tj \in TxJsons}
    \cup {[kind |-> "Other", engine_result |-> er, tx_json |-> [k \in {} |-> JsonString("")]] :
        er \in EngineResults(d)}

(***************************************************************************)
(* Workflow invocations                                                    *)
(***************************************************************************)
Procs == DOMAIN pc

Conns == {"A", "B"}

\* the arguments of offline_xrp_workflow (kind "xrp") and offline_token_workflow
WorkflowArgs ==
    [kind : {"xrp", "token"}, user_secret : Seeds, to_address : {"rDest", "nowhere"},
     amount_drops : {FromNat(75)}, currency_code : {"TST"}, amount : {<<"1", "0", "0">>},
     online_client : {"A"}, offline_client : Conns]

\* a workflow that gathers the sequence of the destination account
GatherAccount_destination(w) == w.to_address

\* &wallet.classic_address: the account handed to gather_transaction_params
GatherAccount(w) == Wallet_new(w.user_secret).val.classic_address

\* the connection handed to gather_transaction_params
GatherClient(w) == w.online_client

\* a workflow that submits on the connection it gathered on
SubmitClient_online(w) == w.online_client

\* the connection handed to submit_signed_blob
SubmitClient(w) == w.offline_client

Request(conn, kind) == [conn |-> conn, kind |-> kind]

\* a token workflow that names the destination as the issuer
WorkflowAmount_destination_issuer(w, wallet) ==
    IF w.kind = "xrp"
    THEN XRPAmount(to_string(w.amount_drops))
    ELSE IssuedCurrencyAmount_new(w.currency_code, w.to_address, w.amount)

\* the amount each workflow hands to the signer
WorkflowAmount(w, wallet) ==
    IF w.kind = "xrp"
    THEN XRPAmount(to_string(w.amount_drops))
    ELSE IssuedCurrencyAmount_new(w.currency_code, wallet.classic_address, w.amount)

\* a workflow that swallows the outcome of the phase and reports success
Finish_swallowed(p, r) ==
    /\ result' = [result EXCEPT ![p] = Ok("")]
    /\ pc' = [pc EXCEPT ![p] = "done"]

Finish(p, r) ==
    /\ result' = [result EXCEPT ![p] = r]
    /\ pc' = [pc EXCEPT ![p] = "done"]

NoCall == [op |-> "none"]

\* one workflow invocation, with any arguments, on a network in any base state
Init ==
    /\ ledger \in BaseLedgers
    /\ acctSeq = [a \in Accounts |-> BaseSequence]
    /\ closes = 0
    /\ others = 0
    /\ checked \in BOOLEAN
    /\ pc = [p \in {1} |-> "start"]
    /\ wf \in [{1} -> WorkflowArgs]
    /\ cli = [p \in {1} |-> None]
    /\ params = [p \in {1} |-> None]
    /\ blob = [p \in {1} |-> None]
    /\ resp = [p \in {1} |-> None]
    /\ result = [p \in {1} |-> None]
    /\ reqs = [p \in {1} |-> <<>>]
    /\ queried = [p \in {1} |-> None]
    /\ call = NoCall

\* a validated ledger closes: the index only advances
LedgerClose ==
    /\ closes < MaxCloses
    /\ \E k \in AdvanceSteps :
          /\ IsU32(BigAdd(ledger, FromNat(k)))
          /\ ledger' = BigAdd(ledger, FromNat(k))
    /\ closes' = closes + 1
    /\ UNCHANGED <<acctSeq, others, checked, pc, wf, cli, params, blob, resp, result, reqs, call, queried>>

\* a transaction of the account that no modelled invocation sent is applied
OtherTransaction ==
    /\ others < MaxOtherTx
    /\ \E a \in Accounts : acctSeq' = [acctSeq EXCEPT ![a] = BigAdd(@, FromNat(1))]
    /\ others' = others + 1
    /\ UNCHANGED <<ledger, closes, checked, pc, wf, cli, params, blob, resp, result, reqs, call, queried>>

\* workflow entry: Wallet::new, then gather's first round trip (validated ledger)
WfGatherLedger(p) ==
    /\ pc[p] = "start"
    /\ LET wallet == Wallet_new(wf[p].user_secret) IN
       IF ~wallet.ok
       THEN /\ Finish(p, Fail(<<"WalletError">>))
            /\ UNCHANGED <<cli, reqs>>
       ELSE /\ reqs' = [reqs EXCEPT ![p] = Append(@, Request(GatherClient(wf[p]), "ledger"))]
            /\ \/ /\ Finish(p, Fail(<<"GatherFailed", "LedgerQueryFailed">>))
                  /\ UNCHANGED cli
               \/ /\ cli' = [cli EXCEPT ![p] = Some(ledger)]
                  /\ pc' = [pc EXCEPT ![p] = "gather_account"]
                  /\ UNCHANGED result
    /\ UNCHANGED <<ledger, acctSeq, closes, others, checked, wf, params, blob, resp, call, queried>>

\* a gather that sends the account_info request a second time
WfGatherAccount_retry(p) ==
    /\ pc[p] = "gather_account"
    /\ reqs' = [reqs EXCEPT ![p] = @ \o <<Request(GatherClient(wf[p]), "account_info"),
                                          Request(GatherClient(wf[p]), "account_info")>>]
    /\ queried' = [queried EXCEPT ![p] = Some(GatherAccount(wf[p]))]
    /\ \/ /\ Finish(p, Fail(<<"GatherFailed", "AccountInfoFailed">>))
          /\ UNCHANGED params
       \/ /\ GatherAccount(wf[p]) \in DOMAIN acctSeq
          /\ LET g == gather_transaction_params(cli[p].val, acctSeq[GatherAccount(wf[p])], checked)
             IN  IF g = Panic
                 THEN /\ pc' = [pc EXCEPT ![p] = "panicked"]
                      /\ UNCHANGED <<params, result>>
                 ELSE IF ~g.ok
                 THEN /\ Finish(p, Fail(<<"GatherFailed">> \o g.err))
                      /\ UNCHANGED params
                 ELSE /\ params' = [params EXCEPT ![p] = Some(g.val)]
                      /\ pc' = [pc EXCEPT ![p] = "sign"]
                      /\ UNCHANGED result
    /\ UNCHANGED <<ledger, acctSeq, closes, others, checked, wf, cli, blob, resp, call>>

\* gather's second round trip (account_info, which fails for an account the
\* ledger does not know), expiration, fee, validation
WfGatherAccount(p) ==
    /\ pc[p] = "gather_account"
    /\ reqs' = [reqs EXCEPT ![p] = Append(@, Request(GatherClient(wf[p]), "account_info"))]
    /\ queried' = [queried EXCEPT ![p] = Some(GatherAccount(wf[p]))]
    /\ \/ /\ Finish(p, Fail(<<"GatherFailed", "AccountInfoFailed">>))
          /\ UNCHANGED params
       \/ /\ GatherAccount(wf[p]) \in DOMAIN acctSeq
          /\ LET g == gather_transaction_params(cli[p].val, acctSeq[GatherAccount(wf[p])], checked)
             IN  IF g = Panic
                 THEN /\ pc' = [pc EXCEPT ![p] = "panicked"]
                      /\ UNCHANGED <<params, result>>
                 ELSE IF ~g.ok
                 THEN /\ Finish(p, Fail(<<"GatherFailed">> \o g.err))
                      /\ UNCHANGED params
                 ELSE /\ params' = [params EXCEPT ![p] = Some(g.val)]
                      /\ pc' = [pc EXCEPT ![p] = "sign"]
                      /\ UNCHANGED result
    /\ UNCHANGED <<ledger, acctSeq, closes, others, checked, wf, cli, blob, resp, call>>

\* a workflow that signs with the parameters the first invocation gathered
SignedParams_first(p) == IF params[1].some THEN params[1].val ELSE params[p].val

\* params.clone(): the value handed to the signer is the one gather returned
SignedParams(p) == params[p].val

\* the offline phase: offline_sign_transaction on the gathered parameters
WfSign(p) ==
    /\ pc[p] = "sign"
    /\ LET wallet == Wallet_new(wf[p].user_secret).val
           s == offline_sign_transaction(wf[p].user_secret, wf[p].to_address,
                                         WorkflowAmount(wf[p], wallet), SignedParams(p))
       IN  IF s.ok
           THEN /\ blob' = [blob EXCEPT ![p] = Some(s.val)]
                /\ pc' = [pc EXCEPT ![p] = "submit_ledger"]
                /\ UNCHANGED result
           ELSE /\ Finish(p, Fail(<<"SignFailed">> \o s.err))
                /\ UNCHANGED blob
    /\ reqs' = [reqs EXCEPT ![p] = @ \o SignerRequests]
    /\ UNCHANGED <<ledger, acctSeq, closes, others, checked, wf, cli, params, resp, call, queried>>

\* submit's first round trip: the current validated ledger, only printed
WfSubmitLedger(p) ==
    /\ pc[p] = "submit_ledger"
    /\ reqs' = [reqs EXCEPT ![p] = Append(@, Request(SubmitClient(wf[p]), "ledger"))]
    /\ \/ /\ Finish(p, Fail(<<"SubmitFailed", "LedgerQueryFailed">>))
          /\ UNCHANGED resp
       \/ /\ resp' = [resp EXCEPT ![p] = Some([current_ledger |-> ledger, at_dispatch |-> None, response |-> None])]
          /\ pc' = [pc EXCEPT ![p] = "submit_dispatch"]
          /\ UNCHANGED result
    /\ UNCHANGED <<ledger, acctSeq, closes, others, checked, wf, cli, params, blob, call, queried>>

\* submit's second round trip: the blob is dispatched and the response classified
WfSubmitDispatch(p) ==
    /\ pc[p] = "submit_dispatch"
    /\ reqs' = [reqs EXCEPT ![p] = Append(@, Request(SubmitClient(wf[p]), "submit"))]
    /\ \/ /\ Finish(p, Fail(<<"SubmitFailed", "RequestFailed">>))
          /\ UNCHANGED <<resp, acctSeq>>
       \/ \E response \in SubmitResponses(decode(blob[p].val)) :
            LET d == decode(blob[p].val)
                r == SubmitClassify(response)
            IN  /\ acctSeq' = IF response.engine_result = tesSUCCESS
                              THEN [acctSeq EXCEPT ![d.Account.val] = BigAdd(@, FromNat(1))]
                              ELSE acctSeq
                /\ resp' = [resp EXCEPT ![p] = Some([current_ledger |-> resp[p].val.current_ledger,
                                                     at_dispatch |-> Some(ledger),
                                                     response |-> Some(response)])]
                /\ Finish(p, IF r.ok THEN r ELSE Fail(<<"SubmitFailed">> \o r.err))
    /\ UNCHANGED <<ledger, closes, others, checked, wf, cli, params, blob, call, queried>>

Next ==
    \/ LedgerClose
    \/ OtherTransaction
    \/ \E p \in Procs : WfGatherLedger(p)
    \/ \E p \in Procs : WfGatherAccount(p)
    \/ \E p \in Procs : WfSign(p)
    \/ \E p \in Procs : WfSubmitLedger(p)
    \/ \E p \in Procs : WfSubmitDispatch(p)

Spec == Init /\ [][Next]_vars

\* one invocation on a network on which one more ledger close and one more
\* foreign transaction may happen; every request is eventually answered or
\* fails, and the steps between two requests are taken: no step of the
\* invocation stays enabled forever
InitLive ==
    /\ ledger \in BaseLedgers
    /\ acctSeq = [a \in Accounts |-> BaseSequence]
    /\ closes = MaxCloses - 1
    /\ others = MaxOtherTx - 1
    /\ checked \in BOOLEAN
    /\ pc = [p \in {1} |-> "start"]
    /\ wf \in {w \in [{1} -> WorkflowArgs] : w[1].to_address = "rDest" /\ w[1].offline_client = "B"}
    /\ cli = [p \in {1} |-> None]
    /\ params = [p \in {1} |-> None]
    /\ blob = [p \in {1} |-> None]
    /\ resp = [p \in {1} |-> None]
    /\ result = [p \in {1} |-> None]
    /\ reqs = [p \in {1} |-> <<>>]
    /\ queried = [p \in {1} |-> None]
    /\ call = NoCall

SpecLive ==
    /\ InitLive /\ [][Next]_vars
    /\ WF_vars(\E p \in Procs : WfGatherLedger(p))
    /\ WF_vars(\E p \in Procs : WfGatherAccount(p))
    /\ WF_vars(\E p \in Procs : WfSign(p))
    /\ WF_vars(\E p \in Procs : WfSubmitLedger(p))
    /\ WF_vars(\E p \in Procs : WfSubmitDispatch(p))

\* two invocations for the same account run concurrently on one network,
\* on which one more ledger close and one more foreign transaction may happen
InitRace ==
    /\ ledger = FromNat(1000)
    /\ acctSeq = [a \in Accounts |-> BaseSequence]
    /\ closes = MaxCloses - 1
    /\ others = MaxOtherTx - 1
    /\ checked = FALSE
    /\ pc = [p \in {1, 2} |-> "start"]
    /\ wf \in {w \in [{1, 2} -> WorkflowArgs] :
                 /\ \A p \in {1, 2} : /\ w[p].user_secret = "sAlice"
                                      /\ w[p].to_address = "rDest"
                                      /\ w[p].offline_client = "B"
                 /\ w[1].kind = "xrp"}
    /\ cli = [p \in {1, 2} |-> None]
    /\ params = [p \in {1, 2} |-> None]
    /\ blob = [p \in {1, 2} |-> None]
    /\ resp = [p \in {1, 2} |-> None]
    /\ result = [p \in {1, 2} |-> None]
    /\ reqs = [p \in {1, 2} |-> <<>>]
    /\ queried = [p \in {1, 2} |-> None]
    /\ call = NoCall

SpecRace == InitRace /\ [][Next]_vars

(***************************************************************************)
(* Direct calls of the public functions, on arguments of any shape         *)
(***************************************************************************)
MaxFeeLen == 2

FeeAlphabet == {"0", "1", "2", "9", "+", "-", "a"}

RECURSIVE StringsUpTo(_)
StringsUpTo(n) ==
    IF n = 0 THEN {<<>>}
    ELSE LET shorter == StringsUpTo(n - 1) IN
         shorter \cup {Append(t, c) : t \in shorter, c \in FeeAlphabet}

\* fee strings of more than MaxFeeLen characters: "012", "+12", 2^32-1, 2^32, 10^11-1
LongFees ==
    {<<"0", "1", "2">>, <<"+", "1", "2">>,
     <<"4", "2", "9", "4", "9", "6", "7", "2", "9", "5">>,
     <<"4", "2", "9", "4", "9", "6", "7", "2", "9", "6">>,
     <<"9", "9", "9", "9", "9", "9", "9", "9", "9", "9", "9">>}

FeeStrings == StringsUpTo(MaxFeeLen) \cup LongFees

\* u32 values around the cases of the code: 0, 1, 1000, 1010, 1011, 2^31, 2^32-1
LedgerSamples ==
    {U32Zero, FromNat(1), FromNat(1000), FromNat(1010), FromNat(1011), <<Half \div 2, 0>>, U32Max}

ValidateCalls ==
    [op : {"validate_security"},
     params : {OfflineTransactionParams(FromNat(5), f, l, FromNat(1000)) :
                   f \in FeeStrings, l \in LedgerSamples},
     current_ledger : {None} \cup {Some(c) : c \in LedgerSamples},
     out : {None}]

SignFees == {<<"1", "2">>, <<"+", "1", "2">>, <<"1", "1">>, <<"2", "0">>, <<>>, <<"4", "2", "9", "4", "9", "6", "7", "2", "9", "6">>}

SignCalls ==
    [op : {"offline_sign_transaction"},
     user_secret : Seeds,
     to_address : {"rDest", "nowhere"},
     amount : {XRPAmount(<<"1", "0", "0">>), IssuedCurrencyAmount_new("TST", "rAlice", <<"1", "0", "0">>)},
     params : {OfflineTransactionParams(s, f, l, FromNat(1000)) :
                   s \in {FromNat(5), FromNat(6)}, f \in SignFees,
                   l \in {U32Zero, FromNat(1), FromNat(1010), U32Max}},
     out : {None}]

\* calls of remaining_ledgers: any expiration, any current ledger
RemainingCalls ==
    [op : {"remaining_ledgers"},
     params : {OfflineTransactionParams(FromNat(5), GatheredFee, l, FromNat(1000)) :
                   l \in LedgerSamples},
     current_ledger : LedgerSamples,
     out : {None}]

\* no workflow invocation runs; one function is called once on drawn arguments
InitCall ==
    /\ ledger = FromNat(1000)
    /\ acctSeq = [a \in Accounts |-> BaseSequence]
    /\ closes = 0
    /\ others = 0
    /\ checked \in BOOLEAN
    /\ pc = <<>>
    /\ wf = <<>>
    /\ cli = <<>>
    /\ params = <<>>
    /\ blob = <<>>
    /\ resp = <<>>
    /\ result = <<>>
    /\ reqs = <<>>
    /\ queried = <<>>
    /\ call \in ValidateCalls \cup SignCalls \cup RemainingCalls

CallFrame == UNCHANGED <<ledger, acctSeq, closes, others, checked, pc, wf, cli, params, blob, resp, result, reqs, queried>>

CallValidate ==
    /\ call.op = "validate_security"
    /\ ~call.out.some
    /\ call' = [call EXCEPT !.out = Some(validate_security(call.params, call.current_ledger))]
    /\ CallFrame

CallSign ==
    /\ call.op = "offline_sign_transaction"
    /\ ~call.out.some
    /\ call' = [call EXCEPT !.out = Some(offline_sign_transaction(call.user_secret, call.to_address, call.amount, call.params))]
    /\ CallFrame

CallRemaining ==
    /\ call.op = "remaining_ledgers"
    /\ ~call.out.some
    /\ call' = [call EXCEPT !.out = Some(remaining_ledgers(call.params, call.current_ledger, checked))]
    /\ CallFrame

NextCall == CallValidate \/ CallSign \/ CallRemaining

SpecCall == InitCall /\ [][NextCall]_vars

(***************************************************************************)
(* Properties of validate_security (checked under SpecCall)                *)
(***************************************************************************)
Validated == call.op = "validate_security" /\ call.out.some

\* a decimal literal of a non-negative integer: digits, after at most one "+"
LiteralDigits(s) == IF s # <<>> /\ s[1] = "+" THEN Tail(s) ELSE s

IsNatLiteral(s) ==
    /\ LiteralDigits(s) # <<>>
    /\ \A i \in 1..Len(LiteralDigits(s)) : IsDigit(LiteralDigits(s)[i])

\* the integer a string of digits denotes, of any size
RECURSIVE DigitsValue(_)
DigitsValue(ds) ==
    IF ds = <<>> THEN U32Zero
    ELSE BigAdd(BigMulSmall(DigitsValue(SubSeq(ds, 1, Len(ds) - 1)), 10),
                FromNat(DigitVal(ds[Len(ds)])))

NatValue(s) == DigitsValue(LiteralDigits(s))

\* the expiration rules do not reject: an expiration is set and no supplied
\* current ledger has reached it
WindowOpen ==
    /\ call.params.last_ledger_sequence # U32Zero
    /\ call.current_ledger.some =>
          BigLt(call.current_ledger.val, call.params.last_ledger_sequence)

\* C4: for params with last_ledger_sequence == 0, validate_security fails
\* with the missing-expiration error, whether or not a current ledger is
\* supplied and whatever the fee string is.
C4_MissingExpiration ==
    (Validated /\ call.params.last_ledger_sequence = U32Zero)
        => call.out.val = "MissingExpiration"

\* a call with no expiration, a supplied current ledger and an unparseable fee
C4_Witness ==
    /\ Validated
    /\ call.params.last_ledger_sequence = U32Zero
    /\ call.current_ledger.some
    /\ ~IsNatLiteral(call.params.fee)
    /\ call.out.val = "MissingExpiration"

\* C5 as stated: for all params and every supplied current_ledger with
\* current_ledger >= last_ledger_sequence, validate_security fails with the
\* expired error.
C5_Original ==
    (Validated /\ call.current_ledger.some
        /\ BigGe(call.current_ledger.val, call.params.last_ledger_sequence))
        => call.out.val = "Expired"

\* C5 amended: for all params with last_ledger_sequence # 0 and every
\* supplied current_ledger >= last_ledger_sequence, validate_security fails
\* with the expired error (with last_ledger_sequence == 0 the error is the
\* missing-expiration one).
C5_Expired ==
    (Validated /\ call.current_ledger.some
        /\ call.params.last_ledger_sequence # U32Zero
        /\ BigGe(call.current_ledger.val, call.params.last_ledger_sequence))
        => call.out.val = "Expired"

\* the boundary: the current ledger equals the expiration
C5_Witness ==
    /\ Validated
    /\ call.current_ledger = Some(call.params.last_ledger_sequence)
    /\ call.params.last_ledger_sequence # U32Zero
    /\ call.out.val = "Expired"

\* C6 as stated: every fee string that fails integer parsing makes
\* validate_security fail with the malformed-fee error, and every fee string
\* that parses to an integer below 12 makes it fail with the fee-below-floor
\* error.
C6_Original ==
    Validated =>
        /\ ~IsNatLiteral(call.params.fee) => call.out.val = "MalformedFee"
        /\ (IsNatLiteral(call.params.fee)
               /\ BigLt(NatValue(call.params.fee), FromNat(MINIMUM_FEE_DROPS)))
              => call.out.val = "FeeBelowMinimum"

\* C6 amended: when the expiration rules do not reject (last_ledger_sequence
\* # 0 and the current ledger absent or < last_ledger_sequence), a fee string
\* that fails integer parsing gives the malformed-fee error and one that
\* parses to an integer below 12 gives the fee-below-floor error.
C6_FeeErrors ==
    (Validated /\ WindowOpen) =>
        /\ ~IsNatLiteral(call.params.fee) => call.out.val = "MalformedFee"
        /\ (IsNatLiteral(call.params.fee)
               /\ BigLt(NatValue(call.params.fee), FromNat(MINIMUM_FEE_DROPS)))
              => call.out.val = "FeeBelowMinimum"

\* an open window with a fee that is no number at all
C6_Witness ==
    /\ Validated
    /\ WindowOpen
    /\ call.current_ledger.some
    /\ call.params.fee = <<"1", "a">>
    /\ call.out.val = "MalformedFee"

\* C7 as stated: validate_security succeeds for every params whose fee
\* denotes a non-negative integer >= 12, whose last_ledger_sequence is
\* non-zero and whose window is open, for every such integer, also above the
\* 32-bit unsigned maximum.
C7_Original ==
    (Validated /\ WindowOpen /\ IsNatLiteral(call.params.fee)
        /\ BigGe(NatValue(call.params.fee), FromNat(MINIMUM_FEE_DROPS)))
        => call.out.val = "Ok"

(***************************************************************************)
(* Properties of offline_sign_transaction (checked under SpecCall)         *)
(***************************************************************************)
Signed == call.op = "offline_sign_transaction" /\ call.out.some /\ call.out.val.ok

\* the fields a signed payment carries
SignedFields ==
    {"TransactionType", "Account", "Destination", "Amount", "Sequence", "Fee",
     "LastLedgerSequence", "SigningPubKey", "TxnSignature"}

GatherRequests(p) ==
    <<Request(wf[p].online_client, "ledger"), Request(wf[p].online_client, "account_info")>>

\* the signing step of invocation p is taken
SignStep(p) == pc[p] = "sign" /\ pc'[p] # "sign"

\* C1: offline_sign_transaction performs no network I/O: the signing step
\* issues no request and leaves the ledger and account state alone, the blob
\* is a function of its four arguments, and from the end of gathering to the
\* first request of the submit phase the requests issued are exactly the two
\* of the gather phase.
C1_SignerOffline ==
    /\ [][\A p \in Procs : SignStep(p) =>
            /\ reqs'[p] = reqs[p]
            /\ ledger' = ledger
            /\ acctSeq' = acctSeq]_vars
    /\ [](\A p \in Procs :
            /\ (pc[p] \in {"sign", "submit_ledger"}
                   \/ (pc[p] = "done" /\ ~result[p].ok /\ Head(result[p].err) = "SignFailed"))
                  => reqs[p] = GatherRequests(p)
            /\ blob[p].some =>
                  Ok(blob[p].val) =
                      offline_sign_transaction(wf[p].user_secret, wf[p].to_address,
                          WorkflowAmount(wf[p], Wallet_new(wf[p].user_secret).val),
                          params[p].val))

\* a blob was signed, the ledger moved since gathering, and only the two
\* gather requests were issued
C1_Witness ==
    \E p \in Procs :
        /\ pc[p] = "submit_ledger"
        /\ blob[p].some
        /\ ledger # cli[p].val
        /\ Len(reqs[p]) = 2

Ten == FromNat(TRANSACTION_EXPIRY_LEDGERS)

\* C2: every params returned by gather_transaction_params has
\* last_ledger_sequence = current_ledger_index + 10 as integers and
\* last_ledger_sequence > current_ledger_index, for every u32 ledger index,
\* also those within 10 of the 32-bit maximum.
C2_ExpiryWindow ==
    \A p \in Procs :
        params[p].some =>
            /\ params[p].val.last_ledger_sequence
                   = BigAdd(params[p].val.current_ledger_index, Ten)
            /\ BigLt(params[p].val.current_ledger_index, params[p].val.last_ledger_sequence)
            /\ params[p].val.current_ledger_index = cli[p].val

\* params gathered at the ledger index 2^32 - 11, the last whose window fits
C2_Witness ==
    \E p \in Procs :
        /\ params[p].some
        /\ params[p].val.current_ledger_index = BigSub(U32Max, Ten)
        /\ params[p].val.last_ledger_sequence = U32Max

\* both gather requests of invocation p were issued and the first was answered
GatherAnswered(p) == cli[p].some /\ Len(reqs[p]) >= 2

\* C3 as stated: whenever both gather queries succeed, gather returns
\* {sequence s, fee "12", last_ledger_sequence L+10, current_ledger_index L}
\* and never fails with the security-validation error.
C3_Original ==
    \A p \in Procs :
        (GatherAnswered(p)
            /\ ~(pc[p] = "done" /\ result[p] = Fail(<<"GatherFailed", "AccountInfoFailed">>)))
        => /\ params[p].some
           /\ params[p].val.fee = <<"1", "2">>
           /\ params[p].val.current_ledger_index = cli[p].val
           /\ params[p].val.last_ledger_sequence = BigAdd(cli[p].val, Ten)

\* the response of a submit request, when one arrived
Answered(p) == resp[p].some /\ resp[p].val.response.some

ResponseOf(p) == resp[p].val.response.val

\* C9: if the engine result of a submission carries an expiration marker,
\* submit_signed_blob fails with the expired error and returns no
\* identifier, also when the response carries a hash.
C9_MarkerFails ==
    \A p \in Procs :
        (Answered(p) /\ ResponseOf(p).kind = "Submit"
            /\ ResponseOf(p).engine_result \in {tecEXPIRED, tefTOO_LATE})
        => result[p] = Fail(<<"SubmitFailed", "TransactionExpired">>)

\* a response with the LATE marker that carries a hash string
C9_Witness ==
    \E p \in Procs :
        /\ Answered(p)
        /\ ResponseOf(p).kind = "Submit"
        /\ ResponseOf(p).engine_result = tefTOO_LATE
        /\ HashOf(ResponseOf(p).tx_json).ok
        /\ result[p] = Fail(<<"SubmitFailed", "TransactionExpired">>)

\* C10 as stated: a blob submitted while the validated ledger index is
\* greater than its LastLedgerSequence never yields a transaction
\* identifier, whatever engine result the network returns.
C10_Original ==
    \A p \in Procs :
        (Answered(p)
            /\ BigLt(decode(blob[p].val).LastLedgerSequence.val, resp[p].val.at_dispatch.val))
        => ~result[p].ok

(***************************************************************************)
(* Properties of the submission outcome                                    *)
(***************************************************************************)
\* C11 as stated: whenever submit_signed_blob (and so the workflow) returns
\* a transaction identifier, the engine result of that submission was an
\* accepted classification, not a rejection code.
C11_Original ==
    \A p \in Procs :
        (pc[p] = "done" /\ result[p].ok)
        => /\ Answered(p)
           /\ ResponseOf(p).engine_result = tesSUCCESS

\* the number of requests of a kind that invocation p issued
Issued(p, kind) == Cardinality({i \in DOMAIN reqs[p] : reqs[p][i].kind = kind})

\* submit_signed_blob was called by invocation p and has returned
SubmitReturned(p) == blob[p].some /\ pc[p] = "done"

\* C12 as stated: each call of submit_signed_blob makes exactly one
\* submission attempt of the blob, never more than one and never zero.
C12_Original ==
    \A p \in Procs : SubmitReturned(p) => Issued(p, "submit") = 1

(***************************************************************************)
(* Properties of the workflow's phases                                     *)
(***************************************************************************)
PhaseRequests == <<"ledger", "account_info", "ledger", "submit">>

\* the requests invocation p issued are the first ones of the four, in order
InPhaseOrder(p) ==
    /\ Len(reqs[p]) <= Len(PhaseRequests)
    /\ \A i \in DOMAIN reqs[p] : reqs[p][i].kind = PhaseRequests[i]

\* the error of a failed workflow is the error of the phase that failed,
\* under that phase's context, and no later phase left a trace
FailedInPhase(p) ==
    LET phase == Head(result[p].err)
        cause == Tail(result[p].err)
    IN  \/ /\ result[p].err = <<"WalletError">>
           /\ ~Wallet_new(wf[p].user_secret).ok
           /\ reqs[p] = <<>> /\ ~params[p].some /\ ~blob[p].some /\ ~resp[p].some
        \/ /\ phase = "GatherFailed"
           /\ \/ cause = <<"LedgerQueryFailed">> /\ Len(reqs[p]) = 1 /\ ~cli[p].some
              \/ cause = <<"AccountInfoFailed">> /\ Len(reqs[p]) = 2
              \/ /\ Len(reqs[p]) = 2
                 /\ \E s \in {BaseSequence, BigAdd(BaseSequence, FromNat(1)), BigAdd(BaseSequence, FromNat(2))} :
                        Fail(cause) = gather_transaction_params(cli[p].val, s, checked)
           /\ ~params[p].some /\ ~blob[p].some /\ ~resp[p].some
        \/ /\ phase = "SignFailed"
           /\ params[p].some
           /\ Fail(cause) = offline_sign_transaction(wf[p].user_secret, wf[p].to_address,
                                WorkflowAmount(wf[p], Wallet_new(wf[p].user_secret).val),
                                params[p].val)
           /\ Len(reqs[p]) = 2 /\ ~blob[p].some /\ ~resp[p].some
        \/ /\ phase = "SubmitFailed"
           /\ params[p].some /\ blob[p].some
           /\ \/ cause = <<"LedgerQueryFailed">> /\ Len(reqs[p]) = 3 /\ ~resp[p].some
              \/ cause = <<"RequestFailed">> /\ Len(reqs[p]) = 4 /\ ~Answered(p)
              \/ Len(reqs[p]) = 4 /\ Answered(p) /\ Fail(cause) = SubmitClassify(ResponseOf(p))

\* C13: in both workflows the phases run in the order gather, sign, submit,
\* each only after the previous one succeeded; a failure in a phase ends the
\* workflow with that phase's error as the cause, nothing of a later phase
\* happens (no request is dispatched after a gather or sign failure), and a
\* workflow that returns an identifier went through all three phases.
C13_PhaseOrder ==
    /\ [][\A p \in Procs :
            pc[p] \in {"done", "panicked"} =>
                /\ pc'[p] = pc[p] /\ reqs'[p] = reqs[p] /\ result'[p] = result[p]
                /\ params'[p] = params[p] /\ blob'[p] = blob[p] /\ resp'[p] = resp[p]]_vars
    /\ [](\A p \in Procs :
            /\ InPhaseOrder(p)
            /\ blob[p].some => params[p].some
            /\ Len(reqs[p]) > 2 => blob[p].some
            /\ resp[p].some => Len(reqs[p]) > 2
            /\ result[p] # None => pc[p] = "done"
            /\ (pc[p] = "done" /\ ~result[p].ok) => FailedInPhase(p)
            /\ (pc[p] = "done" /\ result[p].ok) =>
                  /\ params[p].some /\ blob[p].some /\ Answered(p)
                  /\ Len(reqs[p]) = 4
                  /\ result[p] = SubmitClassify(ResponseOf(p)))

\* a workflow whose sign phase failed after a successful gather: two
\* requests were issued and none follows
C13_Witness ==
    \E p \in Procs :
        /\ pc[p] = "done"
        /\ ~result[p].ok
        /\ Head(result[p].err) = "SignFailed"
        /\ params[p].some
        /\ Len(reqs[p]) = 2

\* C14: in both workflows every gather-phase request (ledger index, account
\* info) goes out on the first connection and every submit-phase request
\* (ledger index, submit) on the second; with two distinct handles neither
\* carries a request of the other phase; and what the workflow computes
\* (parameters, blob, outcome) is the same function of what the network
\* answered whether the handles are distinct or the same.
C14_Connections ==
    \A p \in Procs :
        /\ \A i \in DOMAIN reqs[p] :
              /\ i <= 2 => reqs[p][i] = Request(wf[p].online_client, PhaseRequests[i])
              /\ i > 2 => reqs[p][i] = Request(wf[p].offline_client, PhaseRequests[i])
        /\ wf[p].online_client # wf[p].offline_client =>
              \A i \in DOMAIN reqs[p] :
                  /\ reqs[p][i].conn = wf[p].online_client => i <= 2
                  /\ reqs[p][i].conn = wf[p].offline_client => i > 2
        /\ blob[p].some =>
              Ok(blob[p].val) =
                  offline_sign_transaction(wf[p].user_secret, wf[p].to_address,
                      WorkflowAmount(wf[p], Wallet_new(wf[p].user_secret).val), params[p].val)
        /\ (pc[p] = "done" /\ Answered(p)) =>
              LET r == SubmitClassify(ResponseOf(p)) IN
              result[p] = IF r.ok THEN r ELSE Fail(<<"SubmitFailed">> \o r.err)

\* a workflow on two distinct handles that went through all four requests
C14_Witness ==
    \E p \in Procs :
        /\ wf[p].online_client # wf[p].offline_client
        /\ pc[p] = "done"
        /\ result[p].ok
        /\ Len(reqs[p]) = 4
        /\ reqs[p][2].conn = "A"
        /\ reqs[p][4].conn = "B"

(***************************************************************************)
(* Properties of concurrent invocations (checked under SpecRace)           *)
(***************************************************************************)
\* two distinct invocations for one account that gathered the same sequence
SameSequence(p, q) ==
    /\ p # q
    /\ params[p].some /\ params[q].some
    /\ Wallet_new(wf[p].user_secret) = Wallet_new(wf[q].user_secret)
    /\ params[p].val.sequence = params[q].val.sequence

EngineResultOf(p) == ResponseOf(p).engine_result

\* the ledger applied the transaction of invocation p
Applied(p) == Answered(p) /\ EngineResultOf(p) = tesSUCCESS

\* C15 as stated: whenever two concurrent invocations for one account
\* gathered the same sequence and both submitted, the ledger applies at most
\* one of the two and rejects the other as a sequence conflict.
C15_Original ==
    \A p, q \in Procs :
        (SameSequence(p, q) /\ Answered(p) /\ Answered(q))
        => /\ ~(Applied(p) /\ Applied(q))
           /\ tefPAST_SEQ \in {EngineResultOf(p), EngineResultOf(q)}

\* C15, amended: nothing keeps two concurrent invocations for one account
\* from gathering the same sequence; when they did, the ledger never applies
\* both, and once it applied one, a submission of the other is rejected: as
\* a sequence conflict while its expiration has not passed, as a sequence
\* conflict or as expired afterwards.
C15_SequenceRace ==
    /\ [](\A p, q \in Procs : SameSequence(p, q) => ~(Applied(p) /\ Applied(q)))
    /\ [][\A p, q \in Procs :
            (SameSequence(p, q) /\ Applied(p) /\ pc[q] = "submit_dispatch"
                /\ resp'[q].val.response.some)
            => /\ resp'[q].val.response.val.engine_result \in {tefPAST_SEQ} \cup LateResults
               /\ BigLt(ledger, params[q].val.last_ledger_sequence)
                      => resp'[q].val.response.val.engine_result = tefPAST_SEQ]_vars

\* both invocations gathered the same sequence before either submitted, one
\* was applied and the other then rejected as a sequence conflict
C15_Witness ==
    \E p, q \in Procs :
        /\ SameSequence(p, q)
        /\ Applied(p)
        /\ Answered(q)
        /\ EngineResultOf(q) = tefPAST_SEQ

\* C16 as stated: when two gathers for one account returned the same
\* sequence and both blobs are submitted, submit_signed_blob for the second
\* blob, which the network rejects as a sequence conflict, returns a failure
\* and no transaction identifier.
C16_Original ==
    \A p, q \in Procs :
        (SameSequence(p, q) /\ Applied(p) /\ Answered(q) /\ EngineResultOf(q) = tefPAST_SEQ
            /\ pc[q] = "done")
        => ~result[q].ok

(***************************************************************************)
(* Properties of validation over time                                      *)
(***************************************************************************)
\* C17 as stated: if the ledger has advanced to or past
\* params.last_ledger_sequence by the time offline_sign_transaction is
\* called, signing fails and no signed blob is produced.
C17_Original ==
    [][\A p \in Procs :
          (pc[p] = "sign" /\ BigGe(ledger, params[p].val.last_ledger_sequence))
          => ~blob'[p].some]_vars

\* C18: a security-validation failure is not retriable with the same
\* params: if validate_security(params, c) fails it fails for every later
\* ledger c' >= c, and if validate_security(params, None) fails it fails on
\* every repetition and for every ledger supplied later.
C18_NeverRetriable ==
    (Validated /\ call.out.val # "Ok") =>
        /\ call.current_ledger.some =>
              \A c \in LedgerSamples :
                  BigGe(c, call.current_ledger.val) =>
                      validate_security(call.params, Some(c)) # "Ok"
        /\ ~call.current_ledger.some =>
              /\ validate_security(call.params, None) = call.out.val
              /\ \A c \in LedgerSamples : validate_security(call.params, Some(c)) # "Ok"

\* a validation that failed as expired exactly at the expiration ledger,
\* with later ledgers to retry at
C18_Witness ==
    /\ Validated
    /\ call.out.val = "Expired"
    /\ call.current_ledger = Some(call.params.last_ledger_sequence)
    /\ \E c \in LedgerSamples : BigLt(call.current_ledger.val, c)
    /\ validate_security(call.params, None) = "Ok"

(***************************************************************************)
(* Properties of remaining_ledgers (checked under SpecCall)                *)
(***************************************************************************)
\* C19 as stated: for every params and every u32 current ledger,
\* remaining_ledgers(current) is the mathematical difference
\* last_ledger_sequence - current, negative when current is the greater,
\* with no wrap-around or overflow for any pair of 32-bit inputs.
C19_Original ==
    (call.op = "remaining_ledgers" /\ call.out.some)
    => call.out.val = Ok(BigSub(call.params.last_ledger_sequence, call.current_ledger))

(***************************************************************************)
(* Order of the validator's rules (checked under SpecCall)                 *)
(***************************************************************************)
\* the four rules, each as a condition on the arguments alone
MissingRule(p) == p.last_ledger_sequence = U32Zero

ExpiredRule(p, c) == c.some /\ BigGe(c.val, p.last_ledger_sequence)

MalformedRule(p) == ~ParseU32(p.fee).ok

FloorRule(p) == ParseU32(p.fee).ok /\ BigLt(ParseU32(p.fee).val, FromNat(MINIMUM_FEE_DROPS))

\* C20: validate_security applies its rules in the order missing expiration,
\* expired, malformed fee, fee below floor and reports the first that fails:
\* for params that violate several rules at once the error is that of the
\* earliest violated rule, and an error is reported only when no earlier
\* rule is violated.
C20_RuleOrder ==
    Validated =>
        LET p == call.params
            c == call.current_ledger
            out == call.out.val
        IN  /\ (MissingRule(p) /\ (ExpiredRule(p, c) \/ MalformedRule(p) \/ FloorRule(p)))
                  => out = "MissingExpiration"
            /\ (~MissingRule(p) /\ ExpiredRule(p, c) /\ (MalformedRule(p) \/ FloorRule(p)))
                  => out = "Expired"
            /\ out = "Expired" => ~MissingRule(p)
            /\ out = "MalformedFee" => ~MissingRule(p) /\ ~ExpiredRule(p, c)
            /\ out = "FeeBelowMinimum" => ~MissingRule(p) /\ ~ExpiredRule(p, c) /\ ~MalformedRule(p)
            /\ out = "Ok" => ~(MissingRule(p) \/ ExpiredRule(p, c) \/ MalformedRule(p) \/ FloorRule(p))

\* params that violate two rules at once: an expired window and a fee below
\* 12, reported as expired
C20_Witness ==
    /\ Validated
    /\ ~MissingRule(call.params)
    /\ ExpiredRule(call.params, call.current_ledger)
    /\ FloorRule(call.params)
    /\ call.out.val = "Expired"

(***************************************************************************)
(* Order of the signer's steps (checked under SpecCall)                    *)
(***************************************************************************)
SignReturned == call.op = "offline_sign_transaction" /\ call.out.some

\* C21: offline_sign_transaction validates params with no current ledger
\* before anything else: for params with last_ledger_sequence = 0, a
\* malformed fee or a fee below 12 it returns the validation error and no
\* blob, also when the secret is malformed; params that pass those checks
\* are never rejected by the validation step, whatever the ledger index is
\* and however old the expiration.
C21_ValidationFirst ==
    SignReturned =>
        LET p == call.params
            out == call.out.val
        IN  /\ MissingRule(p) => out = Fail(<<"SecurityValidationFailed", "MissingExpiration">>)
            /\ (~MissingRule(p) /\ MalformedRule(p))
                  => out = Fail(<<"SecurityValidationFailed", "MalformedFee">>)
            /\ (~MissingRule(p) /\ FloorRule(p))
                  => out = Fail(<<"SecurityValidationFailed", "FeeBelowMinimum">>)
            /\ ~(MissingRule(p) \/ MalformedRule(p) \/ FloorRule(p))
                  => (out.ok \/ Head(out.err) # "SecurityValidationFailed")
            /\ (~(MissingRule(p) \/ MalformedRule(p) \/ FloorRule(p))
                    /\ Wallet_new(call.user_secret).ok /\ call.to_address \in Addresses)
                  => out.ok

\* a call with a malformed secret and a fee below 12: the validation error
C21_Witness ==
    /\ SignReturned
    /\ ~Wallet_new(call.user_secret).ok
    /\ FloorRule(call.params)
    /\ call.out.val = Fail(<<"SecurityValidationFailed", "FeeBelowMinimum">>)

\* a call with params whose expiration (1) lies far behind the ledger (1000)
\* and that is signed all the same
StaleParamsSigned ==
    /\ SignReturned
    /\ BigLt(call.params.last_ledger_sequence, ledger)
    /\ call.out.val.ok

(***************************************************************************)
(* Properties of the gather phase (checked under Spec)                     *)
(***************************************************************************)
\* invocation p takes a step of its gather phase
GatherStep(p) == pc[p] \in {"start", "gather_account"} /\ pc'[p] # pc[p]

\* C22: gather_transaction_params makes exactly two round trips on success,
\* the validated-ledger query first and the account query second, and
\* changes no ledger or account state; if the ledger query fails it returns
\* an error without issuing the account query, if the account query fails
\* it returns an error, and in both cases no params value is produced.
C22_GatherRoundTrips ==
    /\ [][\A p \in Procs :
            GatherStep(p) =>
                /\ ledger' = ledger /\ acctSeq' = acctSeq
                /\ Len(reqs'[p]) = Len(reqs[p]) + (IF reqs'[p] = <<>> THEN 0 ELSE 1)
                /\ \A q \in Procs \ {p} : params'[q] = params[q] /\ reqs'[q] = reqs[q]]_vars
    /\ [](\A p \in Procs :
            /\ pc[p] = "sign" => params[p].some /\ reqs[p] = GatherRequests(p)
            /\ params[p].some => SubSeq(reqs[p], 1, 2) = GatherRequests(p)
            /\ (pc[p] = "done" /\ result[p] = Fail(<<"GatherFailed", "LedgerQueryFailed">>))
                  => /\ reqs[p] = <<Request(wf[p].online_client, "ledger")>>
                     /\ ~params[p].some
            /\ (pc[p] = "done" /\ result[p] = Fail(<<"GatherFailed", "AccountInfoFailed">>))
                  => /\ reqs[p] = GatherRequests(p)
                     /\ ~params[p].some)

\* a gather whose account query failed after the ledger query was answered
C22_Witness ==
    \E p \in Procs :
        /\ pc[p] = "done"
        /\ result[p] = Fail(<<"GatherFailed", "AccountInfoFailed">>)
        /\ cli[p].some
        /\ Len(reqs[p]) = 2

(***************************************************************************)
(* Properties of the submit phase (checked under Spec)                     *)
(***************************************************************************)
\* a submit result arrived for invocation p
SubmitAnswered(p) == Answered(p) /\ ResponseOf(p).kind = "Submit"

\* the engine results of the model that carry "EXPIRED" or "LATE"
MarkedResults == {tecEXPIRED, tefTOO_LATE}

\* the echoed transaction JSON has a string under "hash"
HasHashString(tx_json) == "hash" \in DOMAIN tx_json /\ tx_json["hash"] \in {JsonString(h) : h \in Hashes}

\* C23: when the engine result carries no expiration marker,
\* submit_signed_blob returns exactly the string under "hash" in the echoed
\* transaction JSON and fails with the missing-hash error if that field is
\* absent or no string; the marker check comes first, so a response with a
\* marker and no hash yields the expired error.
C23_HashExtraction ==
    \A p \in Procs :
        SubmitAnswered(p) =>
            LET r == ResponseOf(p) IN
            /\ (r.engine_result \notin MarkedResults /\ HasHashString(r.tx_json))
                  => result[p] = Ok(r.tx_json["hash"].val)
            /\ (r.engine_result \notin MarkedResults /\ ~HasHashString(r.tx_json))
                  => result[p] = Fail(<<"SubmitFailed", "NoHash">>)
            /\ (r.engine_result \in MarkedResults /\ ~HasHashString(r.tx_json))
                  => result[p] = Fail(<<"SubmitFailed", "TransactionExpired">>)

\* a response with a marker whose hash is no string: the expired error
C23_Witness ==
    \E p \in Procs :
        /\ SubmitAnswered(p)
        /\ ResponseOf(p).engine_result = tecEXPIRED
        /\ "hash" \in DOMAIN ResponseOf(p).tx_json
        /\ ~HasHashString(ResponseOf(p).tx_json)
        /\ result[p] = Fail(<<"SubmitFailed", "TransactionExpired">>)

\* C24 as stated: the ledger query before the submission is informational
\* and no gate: once submit_signed_blob has issued it, the blob is
\* dispatched whatever the outcome of the query is.
C24_Original ==
    \A p \in Procs :
        (pc[p] = "done" /\ Len(reqs[p]) >= 3)
        => /\ Len(reqs[p]) = 4
           /\ reqs[p][4] = Request(wf[p].offline_client, "submit")

\* for every ledger index the query returns, at or past the expiration of
\* the blob too, the blob is dispatched
DispatchedWhenAnswered ==
    \A p \in Procs :
        (pc[p] = "done" /\ resp[p].some)
        => /\ Len(reqs[p]) = 4
           /\ reqs[p][4] = Request(wf[p].offline_client, "submit")

(***************************************************************************)
(* Properties of the parameters' lifecycle (checked under SpecRace)        *)
(***************************************************************************)
\* C25: params are read-only after gathering: once gather returned them no
\* step changes a field of them (validation and signing included), and the
\* params signed in a workflow are the value its own gather returned: the
\* blob's sequence, fee and expiration are those gathered in the same
\* invocation, never those of another invocation.
C25_ParamsReadOnly ==
    /\ [][\A p \in Procs : params[p].some => params'[p] = params[p]]_vars
    /\ [](\A p \in Procs :
            /\ params[p].some =>
                  /\ params[p].val.current_ledger_index = cli[p].val
                  /\ params[p].val.fee = GatheredFee
            /\ blob[p].some =>
                  LET d == decode(blob[p].val) IN
                  /\ params[p].some
                  /\ d.Sequence = Some(params[p].val.sequence)
                  /\ d.Fee = Some(params[p].val.fee)
                  /\ d.LastLedgerSequence = Some(params[p].val.last_ledger_sequence))

\* two invocations that gathered different sequences and expirations, each
\* with its own values in its blob
C25_Witness ==
    \E p, q \in Procs :
        /\ blob[p].some /\ blob[q].some
        /\ params[p].val.sequence # params[q].val.sequence
        /\ params[p].val.last_ledger_sequence # params[q].val.last_ledger_sequence
        /\ decode(blob[q].val).Sequence = Some(params[q].val.sequence)
        /\ decode(blob[p].val).Sequence = Some(params[p].val.sequence)

(***************************************************************************)
(* Termination (checked under SpecLive)                                    *)
(***************************************************************************)
\* the position of a workflow step in program order
Rank(l) ==
    CASE l = "start" -> 0
      [] l = "gather_account" -> 1
      [] l = "sign" -> 2
      [] l = "submit_ledger" -> 3
      [] l = "submit_dispatch" -> 4
      [] OTHER -> 5

\* invocation p returned a transaction identifier or an error
Returned(p) == pc[p] = "done" /\ result[p] # None

\* C26 as stated: assuming every network request is eventually answered or
\* fails, every workflow invocation eventually returns a transaction
\* identifier or an error.
C26_Original == <>(\A p \in Procs : Returned(p))

\* what holds of termination: under the same assumption every workflow
\* invocation ends, by returning an identifier or an error or, in a build
\* with overflow checks, by the panic of the expiration sum; it issues at
\* most four requests (two ledger queries, one account query, one submit),
\* and it only moves forward: no loop, no retry.
TerminatesOrPanics ==
    /\ <>[](\A p \in Procs : Returned(p) \/ pc[p] = "panicked")
    /\ [](\A p \in Procs :
            /\ Len(reqs[p]) <= 4
            /\ Issued(p, "ledger") <= 2
            /\ Issued(p, "account_info") <= 1
            /\ Issued(p, "submit") <= 1)
    /\ [][\A p \in Procs : pc'[p] # pc[p] => Rank(pc'[p]) > Rank(pc[p])]_vars

\* a workflow that returned after all four requests, with ledger closes in
\* between
ReturnedAfterFourRequests ==
    \E p \in Procs :
        /\ Returned(p)
        /\ Issued(p, "ledger") = 2
        /\ Issued(p, "account_info") = 1
        /\ Issued(p, "submit") = 1
        /\ closes = MaxCloses

(***************************************************************************)
(* The validity window (checked under Spec)                                *)
(***************************************************************************)
\* C27: the validity window never exceeds 10 ledgers: the ledger index is
\* read before the account sequence and the validated ledger only advances,
\* so from the moment gather returns, params.last_ledger_sequence minus the
\* live validated ledger index is at most 10, and it never increases.
C27_WindowAtMostTen ==
    /\ [](\A p \in Procs :
            params[p].some =>
                /\ BigGe(BigAdd(ledger, Ten), params[p].val.last_ledger_sequence)
                /\ BigGe(ledger, params[p].val.current_ledger_index))
    /\ [][\A p \in Procs :
            params[p].some =>
                BigGe(BigSub(params[p].val.last_ledger_sequence, ledger),
                      BigSub(params'[p].val.last_ledger_sequence, ledger'))]_vars

\* params whose window shrank to nothing: the live ledger reached the
\* expiration
C27_Witness ==
    \E p \in Procs :
        /\ params[p].some
        /\ BigLt(params[p].val.current_ledger_index, ledger)
        /\ ledger = params[p].val.last_ledger_sequence

(***************************************************************************)
(* validate_security against remaining_ledgers (checked under SpecCall)    *)
(***************************************************************************)
\* C28 as stated: validate_security and remaining_ledgers agree on expiry
\* for every pair of u32 values: if validate_security(params, Some(c)) does
\* not fail on the expiration rules then remaining_ledgers(c) >= 1, and if
\* it fails as expired then remaining_ledgers(c) <= 0.
C28_Original ==
    (call.op = "remaining_ledgers" /\ call.out.some) =>
        LET v == validate_security(call.params, Some(call.current_ledger))
            r == call.out.val
        IN  /\ v \notin {"MissingExpiration", "Expired"}
                  => (r # Panic /\ BigGe(r.val, FromNat(1)))
            /\ v = "Expired"
                  => (r # Panic /\ BigGe(U32Zero, r.val))

(***************************************************************************)
(* The signing identity (checked under Spec)                               *)
(***************************************************************************)
\* C29: in both workflows the signing identity is derived from the secret
\* before the gather phase: with a malformed secret the workflow fails with
\* the wallet error and issues no request on either connection, and the
\* account whose sequence is gathered is the address derived from the same
\* secret that later signs.
C29_WalletBeforeGather ==
    \A p \in Procs :
        LET wallet == Wallet_new(wf[p].user_secret) IN
        /\ ~wallet.ok =>
              /\ reqs[p] = <<>>
              /\ ~queried[p].some
              /\ pc[p] # "start" => (pc[p] = "done" /\ result[p] = Fail(<<"WalletError">>))
        /\ reqs[p] # <<>> => wallet.ok
        /\ queried[p].some => queried[p].val = wallet.val.classic_address
        /\ blob[p].some =>
              /\ decode(blob[p].val).Account = queried[p]
              /\ decode(blob[p].val).SigningPubKey = Some(wallet.val.public_key)

\* a workflow with a malformed secret that ended with the wallet error
\* before any request
C29_Witness ==
    \E p \in Procs :
        /\ ~Wallet_new(wf[p].user_secret).ok
        /\ pc[p] = "done"
        /\ result[p] = Fail(<<"WalletError">>)
        /\ reqs[p] = <<>>

\* a workflow that gathered for the account its blob is signed by
GatheredForSigner ==
    \E p \in Procs : blob[p].some /\ decode(blob[p].val).Account = queried[p]

\* C30: in offline_token_workflow the issuer of the issued-currency amount
\* is the address derived from the signing secret, the sender itself: the
\* signed payment's amount is {currency_code, issuer = source address,
\* value = amount} for every currency code, amount and destination, and the
\* workflow produces no other issuer.
C30_IssuerIsSender ==
    \A p \in Procs :
        (wf[p].kind = "token" /\ blob[p].some) =>
            LET d == decode(blob[p].val) IN
            /\ d.Amount.some
            /\ d.Amount.val.type = "Issued"
            /\ d.Amount.val.currency = wf[p].currency_code
            /\ d.Amount.val.value = wf[p].amount
            /\ Some(d.Amount.val.issuer) = d.Account
            /\ d.Amount.val.issuer = Wallet_new(wf[p].user_secret).val.classic_address
            /\ d.Destination = Some(wf[p].to_address)

\* a token payment signed for a destination that is not the sender
C30_Witness ==
    \E p \in Procs :
        /\ wf[p].kind = "token"
        /\ blob[p].some
        /\ decode(blob[p].val).Amount.val.issuer = "rAlice"
        /\ decode(blob[p].val).Destination = Some("rDest")

====
